---- MODULE Spec2Model ----
(***************************************************************************)
(* State-machine model of the agent's HealthReporter (health-reporter.js): *)
(* the status register, the interval timer, the asynchronous status file   *)
(* writes and the logger calls.                                            *)
(***************************************************************************)
EXTENDS Integers, Sequences, FiniteSets, TLC

\* ------------------------------------------------------------------ bounds
\* Largest number of operations (constructor, setStatus, stop, timer ticks
\* and write completions) an explored run performs.
MaxOps == 6
\* Largest value process.hrtime.bigint() reaches; the clock then stands still.
MaxClock == 1
\* How many of the failure codes NR-APM-001.. callers pass to setStatus.
MaxFailureInputs == 1

\* --------------------------------------------------------- JS `undefined`
\* An unset string-valued binding (environment variable, #destFile).
Undefined == "<undefined>"
\* An unset #startTime; process.hrtime never yields a negative number.
UndefinedTime == -1
\* parseInt of a string with no leading digits.
NaN == -2

\* -------------------------------------------------------- the status table
STATUS_HEALTHY == "NR-APM-000"
STATUS_AGENT_SHUTDOWN == "NR-APM-099"

VALID_CODES ==
  [c \in {"NR-APM-000", "NR-APM-001", "NR-APM-002", "NR-APM-003",
          "NR-APM-004", "NR-APM-005", "NR-APM-006", "NR-APM-007",
          "NR-APM-008", "NR-APM-009", "NR-APM-010", "NR-APM-099"} |->
     CASE c = "NR-APM-000" -> "Healthy."
       [] c = "NR-APM-001" -> "Invalid license key."
       [] c = "NR-APM-002" -> "License key missing."
       [] c = "NR-APM-003" -> "Forced disconnect received from New Relic."
       [] c = "NR-APM-004" -> "HTTP error communicating with New Relic."
       [] c = "NR-APM-005" -> "Missing application name in agent configuration."
       [] c = "NR-APM-006" -> "The maximum number of configured app names is exceeded."
       [] c = "NR-APM-007" -> "HTTP proxy is misconfigured."
       [] c = "NR-APM-008" -> "Agent is disabled via configuration."
       [] c = "NR-APM-009" -> "Failed to connect to the New Relic data collector."
       [] c = "NR-APM-010" -> "Agent config could not be parsed."
       [] c = "NR-APM-099" -> "Agent has shutdown."]

Has_AcceptAll(code) == TRUE

Has_NoShutdown(code) == code \in DOMAIN VALID_CODES \ {STATUS_AGENT_SHUTDOWN}

\* VALID_CODES.has(code)
Has(code) == code \in DOMAIN VALID_CODES

\* The failure causes: every table entry but healthy and shutdown.
FailureCodes == DOMAIN VALID_CODES \ {STATUS_HEALTHY, STATUS_AGENT_SHUTDOWN}

\* ------------------------------------------------------------------ inputs
FailureCodeSeq ==
  <<"NR-APM-004", "NR-APM-010", "NR-APM-001", "NR-APM-002", "NR-APM-003",
    "NR-APM-005", "NR-APM-006", "NR-APM-007", "NR-APM-008", "NR-APM-009">>

Min(a, b) == IF a < b THEN a ELSE b

\* Codes callers pass to setStatus: recognised ones and an unrecognised one.
InvalidCodes == {"bad-code"}
StatusInputs ==
  {STATUS_HEALTHY, STATUS_AGENT_SHUTDOWN}
    \cup {FailureCodeSeq[i] : i \in 1..Min(MaxFailureInputs, Len(FailureCodeSeq))}
    \cup InvalidCodes

\* process.env values read by the constructor.
FleetIds == {Undefined, "", "42"}
OutDirs == {Undefined, "/tmp"}
CheckIntervals == {Undefined, "1", "30", "abc"}
\* crypto.randomUUID().replaceAll('-', '')
UUIDs == {"0123456789abcdef0123456789abcdef"}
\* crypto.randomUUID() for a second reporter: the same value again, or another.
PeerUUIDs == UUIDs \cup {"fedcba9876543210fedcba9876543210"}
\* error.message of a failed fs.writeFile
ErrorMessages == {"boom"}

VARIABLES
  env,          \* process.env: the three variables the constructor reads
  constructed,  \* whether `new HealthReporter()` has run
  status,       \* #status
  interval,     \* #interval: the timer handle setInterval returned
  destFile,     \* #destFile
  startTime,    \* #startTime
  clock,        \* last value process.hrtime.bigint() returned
  logs,         \* calls made on #logger, in order
  writes,       \* fs.writeFile calls issued, in order
  pending,      \* indices of `writes` whose callback has not run yet
  fileData,     \* content of the file at #destFile
  lastOp,       \* the operation that ran last and how it returned
  effects,      \* what a completed construction did, in program order
  peer,         \* a second HealthReporter of the same process
  ops           \* number of operations performed so far

vars == <<env, constructed, status, interval, destFile, startTime, clock, logs,
          writes, pending, fileData, lastOp, ops, effects, peer>>

\* ----------------------------------------------------------------- helpers
\* One call logger.<level>(msg); a template literal is the tuple of its parts.
Log(level, msg) == [level |-> level, msg |-> msg]

\* The values process.hrtime.bigint() may return next: never less than before.
ClockReads == clock .. Min(clock + 1, MaxClock)

NoTimer == [set |-> FALSE, delay |-> 0, active |-> FALSE, unref |-> FALSE]

\* The characters of the strings handed to parseInt.
Chars(s) ==
  CASE s = "1" -> <<"1">>
    [] s = "30" -> <<"3", "0">>
    [] s = "1.5" -> <<"1", ".", "5">>
    [] s = " 7" -> <<" ", "7">>
    [] s = "abc" -> <<"a", "b", "c">>
    [] OTHER -> <<>>

DigitChars == {"0", "1", "2", "3", "4", "5", "6", "7", "8", "9"}

DigitValue(c) ==
  CASE c = "0" -> 0 [] c = "1" -> 1 [] c = "2" -> 2 [] c = "3" -> 3
    [] c = "4" -> 4 [] c = "5" -> 5 [] c = "6" -> 6 [] c = "7" -> 7
    [] c = "8" -> 8 [] c = "9" -> 9

\* The value of the longest prefix of decimal digits of cs from position i,
\* acc being the value of the digits read so far.
RECURSIVE ParseDigits(_, _, _)
ParseDigits(cs, i, acc) ==
  IF i > Len(cs) \/ cs[i] \notin DigitChars
  THEN acc
  ELSE ParseDigits(cs, i + 1, acc * 10 + DigitValue(cs[i]))

RECURSIVE SkipSpaces(_, _)
SkipSpaces(cs, i) ==
  IF i <= Len(cs) /\ cs[i] = " " THEN SkipSpaces(cs, i + 1) ELSE i

ParseInt_FirstDigit(s) ==
  LET cs == Chars(s)
      i == SkipSpaces(cs, 1)
  IN IF i > Len(cs) \/ cs[i] \notin DigitChars THEN NaN ELSE DigitValue(cs[i])

\* parseInt(s, 10): leading white space is skipped, the longest prefix of
\* digits is read, and a string with no such prefix gives NaN.
ParseInt(s) ==
  LET cs == Chars(s)
      i == SkipSpaces(cs, 1)
  IN IF i > Len(cs) \/ cs[i] \notin DigitChars
     THEN NaN
     ELSE ParseDigits(cs, i, 0)

\* Number arithmetic: NaN * n is NaN.
Times(a, b) == IF a = NaN \/ b = NaN THEN NaN ELSE a * b

PathJoin_NoUuid(outDir, uuid) == <<outDir, "/", "health-", "", ".yaml">>

\* path.join(outDir, `health-${uuid}.yaml`)
PathJoin(outDir, uuid) == <<outDir, "/", "health-", uuid, ".yaml">>

Yaml_Swapped(healthy, code, msg, start, currentTime) ==
  << <<"healthy: ", healthy>>,
     <<"last_error: ", code>>,
     <<"status: '", msg, "'">>,
     <<"start_time_unix_nano: ", start>>,
     <<"status_time_unix_nano: ", currentTime>> >>

\* The yaml text writeStatus builds: five lines joined by '\n'.
Yaml(healthy, code, msg, start, currentTime) ==
  << <<"healthy: ", healthy>>,
     <<"status: '", msg, "'">>,
     <<"last_error: ", code>>,
     <<"start_time_unix_nano: ", start>>,
     <<"status_time_unix_nano: ", currentTime>> >>

WriteStatus_StartNow(file, healthy, code, msg, start, callback, currentTime) ==
  [file |-> file,
   data |-> Yaml(healthy, code, msg, currentTime, currentTime),
   callback |-> callback]

WriteStatus_TimesSwapped(file, healthy, code, msg, start, callback, currentTime) ==
  [file |-> file,
   data |-> Yaml(healthy, code, msg, currentTime, start),
   callback |-> callback]

WriteStatus_OtherFile(file, healthy, code, msg, start, callback, currentTime) ==
  [file |-> IF callback = "stop" THEN <<"health.yaml">> ELSE file,
   data |-> Yaml(healthy, code, msg, start, currentTime),
   callback |-> callback]

WriteStatus_AlwaysHealthy(file, healthy, code, msg, start, callback, currentTime) ==
  [file |-> file,
   data |-> Yaml(TRUE, code, msg, start, currentTime),
   callback |-> callback]

\* writeStatus({file, healthy, code, msg, startTime, callback}) reading the
\* clock as currentTime: the fs.writeFile call it makes.
WriteStatus(file, healthy, code, msg, start, callback, currentTime) ==
  [file |-> file,
   data |-> Yaml(healthy, code, msg, start, currentTime),
   callback |-> callback]

ShutdownRefused_AnyCode(code, current) == current # STATUS_HEALTHY

ShutdownRefused_Never(code, current) == FALSE

\* The test of setStatus that keeps a failure cause from being overwritten
\* by the shutdown code.
ShutdownRefused(code, current) ==
  code = STATUS_AGENT_SHUTDOWN /\ current # STATUS_HEALTHY

StopCode_Always(current) == STATUS_AGENT_SHUTDOWN

StopCode_Keep(current) == current

\* The code stop() reports: the shutdown code only from the healthy state.
StopCode(current) ==
  IF current = STATUS_HEALTHY THEN STATUS_AGENT_SHUTDOWN ELSE current

\* `error` argument of a write callback that reports success.
NoError == "<no error>"

HealthCheckCallback_Always(error) ==
  <<Log("error", <<"error when writing out health status: ", error>>)>>

HealthCheckCallback_Twice(error) ==
  IF error # NoError
  THEN << Log("error", <<"error when writing out health status: ", error>>),
          Log("error", <<"error when writing out health status: ", error>>) >>
  ELSE <<>>

\* The callback #healthCheck hands to writeStatus: the logger calls it makes.
HealthCheckCallback(error) ==
  IF error # NoError
  THEN <<Log("error", <<"error when writing out health status: ", error>>)>>
  ELSE <<>>

StopCallback_TickMessage(error) ==
  IF error # NoError
  THEN <<Log("error", <<"error when writing out health status: ", error>>)>>
  ELSE <<>>

\* The callback stop hands to writeStatus.
StopCallback(error) ==
  IF error # NoError
  THEN <<Log("error", <<"error when writing out health status during shutdown: ", error>>)>>
  ELSE <<>>

Callback_AlwaysStop(name, error) == StopCallback(error)

\* The callback fs.writeFile runs for a write: the one its issuer handed over.
Callback(name, error) ==
  IF name = "healthCheck" THEN HealthCheckCallback(error) ELSE StopCallback(error)

\* What ran last: the operation, its argument, the callback it ran, #status
\* before it, and whether it threw.
Op(name, arg, cb, threw) ==
  [op |-> name, arg |-> arg, cb |-> cb, prev |-> status, threw |-> threw]

\* One more operation runs, if the run has room for it.
Ran(name, arg, cb, threw) ==
  /\ ops < MaxOps
  /\ ops' = ops + 1
  /\ lastOp' = Op(name, arg, cb, threw)

FleetAbsent_Never(fleetId) == FALSE

\* `!fleetId`: the variable is unset or empty.
FleetAbsent(fleetId) == fleetId = Undefined \/ fleetId = ""

OutDirAbsent_Never(outDir) == FALSE

\* `outDir === undefined`
OutDirAbsent(outDir) == outDir = Undefined

DefaultInterval_Seconds == 5000 \div 1000

\* The interval used when the environment gives none, in milliseconds.
DefaultInterval == 5000

ClearInterval_Noop(timer) == timer

\* clearInterval(timer): the timer fires no more; an unset handle is ignored.
ClearInterval(timer) == [timer EXCEPT !.active = FALSE]

\* -------------------------------------------------------------------- Init
\* The second reporter before `new HealthReporter()` has run for it.
NoPeer ==
  [constructed |-> FALSE, interval |-> NoTimer, destFile |-> Undefined,
   startTime |-> UndefinedTime]

Init ==
  /\ env \in [fleetId : FleetIds, outDir : OutDirs, checkInterval : CheckIntervals]
  /\ constructed = FALSE
  /\ status = STATUS_HEALTHY
  /\ interval = NoTimer
  /\ destFile = Undefined
  /\ startTime = UndefinedTime
  /\ clock = 0
  /\ logs = <<>>
  /\ writes = <<>>
  /\ pending = {}
  /\ fileData = <<>>
  /\ ops = 0
  /\ effects = <<>>
  /\ peer = NoPeer
  /\ lastOp = [op |-> "none", arg |-> "", cb |-> "", prev |-> STATUS_HEALTHY,
               threw |-> FALSE]

\* ------------------------------------------------------------- constructor
ConstructionSteps_TimerFirst ==
  << "setInterval", "unref", "#startTime", "#destFile", "logger.info",
     "logger.info" >>

\* What the constructor does once its checks have passed, in program order.
ConstructionSteps ==
  << "#startTime", "#destFile", "logger.info", "setInterval", "unref",
     "logger.info" >>

Constructor_OutDirFirst(fleetId, outDir, envInterval, uuid, now) ==
  /\ constructed = FALSE
  /\ constructed' = TRUE
  /\ Ran("constructor", "", "", FALSE)
  /\ UNCHANGED <<env, peer, status, writes, pending, fileData>>
  /\ IF OutDirAbsent(outDir)
     THEN /\ logs' = Append(logs,
                Log("error", <<"health check output directory not provided, skipping health reporting">>))
          /\ UNCHANGED <<interval, destFile, startTime, clock, effects>>
     ELSE IF FleetAbsent(fleetId)
     THEN /\ logs' = Append(logs,
                Log("info", <<"new relic control not present, skipping health reporting">>))
          /\ UNCHANGED <<interval, destFile, startTime, clock, effects>>
     ELSE LET checkInterval == IF envInterval = Undefined
                               THEN DefaultInterval
                               ELSE Times(ParseInt(envInterval), 1000)
              defaulted == IF envInterval = Undefined
                           THEN <<Log("debug", <<"health check interval not available, using default 5 seconds">>)>>
                           ELSE <<>>
              file == PathJoin(outDir, uuid)
          IN /\ effects' = ConstructionSteps
             /\ startTime' = now
             /\ clock' = now
             /\ destFile' = file
             /\ interval' = [set |-> TRUE, delay |-> checkInterval,
                             active |-> TRUE, unref |-> TRUE]
             /\ logs' = logs \o defaulted \o
                  << Log("info", <<"new relic control is present, writing health on interval ",
                                   checkInterval, " milliseconds to ", file>>),
                     Log("info", <<"health reporter initialized">>) >>

Constructor(fleetId, outDir, envInterval, uuid, now) ==
  /\ constructed = FALSE
  /\ constructed' = TRUE
  /\ Ran("constructor", "", "", FALSE)
  /\ UNCHANGED <<env, peer, status, writes, pending, fileData>>
  /\ IF FleetAbsent(fleetId)
     THEN /\ logs' = Append(logs,
                Log("info", <<"new relic control not present, skipping health reporting">>))
          /\ UNCHANGED <<interval, destFile, startTime, clock, effects>>
     ELSE IF OutDirAbsent(outDir)
     THEN /\ logs' = Append(logs,
                Log("error", <<"health check output directory not provided, skipping health reporting">>))
          /\ UNCHANGED <<interval, destFile, startTime, clock, effects>>
     ELSE LET checkInterval == IF envInterval = Undefined
                               THEN DefaultInterval
                               ELSE Times(ParseInt(envInterval), 1000)
              defaulted == IF envInterval = Undefined
                           THEN <<Log("debug", <<"health check interval not available, using default 5 seconds">>)>>
                           ELSE <<>>
              file == PathJoin(outDir, uuid)
          IN /\ effects' = ConstructionSteps
             /\ startTime' = now
             /\ clock' = now
             /\ destFile' = file
             /\ interval' = [set |-> TRUE, delay |-> checkInterval,
                             active |-> TRUE, unref |-> TRUE]
             /\ logs' = logs \o defaulted \o
                  << Log("info", <<"new relic control is present, writing health on interval ",
                                   checkInterval, " milliseconds to ", file>>),
                     Log("info", <<"health reporter initialized">>) >>

\* ------------------------------------------------------------ #healthCheck
HealthCheck_ResetsStatus(now) ==
  /\ constructed
  /\ interval.active
  /\ LET healthy == status = STATUS_HEALTHY
     IN writes' = Append(writes,
          WriteStatus(destFile, healthy, status, VALID_CODES[status],
                      startTime, "healthCheck", now))
  /\ pending' = pending \cup {Len(writes) + 1}
  /\ clock' = now
  /\ status' = STATUS_HEALTHY
  /\ Ran("healthCheck", "", "", FALSE)
  /\ UNCHANGED <<env, effects, peer, constructed, interval, destFile, startTime, logs, fileData>>

\* One firing of the interval timer.
HealthCheck(now) ==
  /\ constructed
  /\ interval.active
  /\ LET healthy == status = STATUS_HEALTHY
     IN writes' = Append(writes,
          WriteStatus(destFile, healthy, status, VALID_CODES[status],
                      startTime, "healthCheck", now))
  /\ pending' = pending \cup {Len(writes) + 1}
  /\ clock' = now
  /\ Ran("healthCheck", "", "", FALSE)
  /\ UNCHANGED <<env, effects, peer, constructed, status, interval, destFile, startTime, logs, fileData>>

\* --------------------------------------------------------------- setStatus
InvalidStatusLog_Error(code) ==
  Log("error", <<"invalid health reporter status provided: ", code>>)

\* The logger call of setStatus for a code the table does not hold.
InvalidStatusLog(code) ==
  Log("warn", <<"invalid health reporter status provided: ", code>>)

SetStatus_ClearsTimer(code) ==
  /\ constructed
  /\ Ran("setStatus", code, "", FALSE)
  /\ interval' = ClearInterval(interval)
  /\ UNCHANGED <<env, effects, peer, constructed, destFile, startTime, clock, writes,
                 pending, fileData>>
  /\ IF ~Has(code)
     THEN /\ logs' = Append(logs, InvalidStatusLog(code))
          /\ UNCHANGED status
     ELSE IF ShutdownRefused(code, status)
     THEN /\ logs' = Append(logs,
                Log("info", <<"not setting shutdown health status due to current status code: ",
                              status>>))
          /\ UNCHANGED status
     ELSE /\ status' = code
          /\ UNCHANGED logs

SetStatus(code) ==
  /\ constructed
  /\ Ran("setStatus", code, "", FALSE)
  /\ UNCHANGED <<env, effects, peer, constructed, interval, destFile, startTime, clock, writes,
                 pending, fileData>>
  /\ IF ~Has(code)
     THEN /\ logs' = Append(logs, InvalidStatusLog(code))
          /\ UNCHANGED status
     ELSE IF ShutdownRefused(code, status)
     THEN /\ logs' = Append(logs,
                Log("info", <<"not setting shutdown health status due to current status code: ",
                              status>>))
          /\ UNCHANGED status
     ELSE /\ status' = code
          /\ UNCHANGED logs

\* -------------------------------------------------------------------- stop
Stop_StoresCode(now) ==
  /\ constructed
  /\ clock' = now
  /\ interval' = ClearInterval(interval)
  /\ status' = StopCode(status)
  /\ UNCHANGED <<env, effects, peer, constructed, destFile, startTime, logs, fileData>>
  /\ LET healthy == status = STATUS_HEALTHY
         code == StopCode(status)
         msg == VALID_CODES[code]
     IN IF destFile = Undefined
        THEN /\ Ran("stop", "", "", TRUE)
             /\ UNCHANGED <<writes, pending>>
        ELSE /\ writes' = Append(writes,
                  WriteStatus(destFile, healthy, code, msg, startTime, "stop", now))
             /\ pending' = pending \cup {Len(writes) + 1}
             /\ Ran("stop", "", "", FALSE)

Stop_StaleMessage(now) ==
  /\ constructed
  /\ clock' = now
  /\ interval' = ClearInterval(interval)
  /\ UNCHANGED <<env, effects, peer, constructed, status, destFile, startTime, logs, fileData>>
  /\ LET healthy == status = STATUS_HEALTHY
         code == StopCode(status)
         msg == VALID_CODES[status]
     IN IF destFile = Undefined
        THEN /\ Ran("stop", "", "", TRUE)
             /\ UNCHANGED <<writes, pending>>
        ELSE /\ writes' = Append(writes,
                  WriteStatus(destFile, healthy, code, msg, startTime, "stop", now))
             /\ pending' = pending \cup {Len(writes) + 1}
             /\ Ran("stop", "", "", FALSE)

\* stop(): clearInterval, then one last writeStatus.
Stop(now) ==
  /\ constructed
  /\ clock' = now
  /\ interval' = ClearInterval(interval)
  /\ UNCHANGED <<env, effects, peer, constructed, status, destFile, startTime, logs, fileData>>
  /\ LET healthy == status = STATUS_HEALTHY
         code == StopCode(status)
         msg == VALID_CODES[code]
     IN IF destFile = Undefined
        THEN \* fs.writeFile(undefined, ...) throws ERR_INVALID_ARG_TYPE
             /\ Ran("stop", "", "", TRUE)
             /\ UNCHANGED <<writes, pending>>
        ELSE /\ writes' = Append(writes,
                  WriteStatus(destFile, healthy, code, msg, startTime, "stop", now))
             /\ pending' = pending \cup {Len(writes) + 1}
             /\ Ran("stop", "", "", FALSE)

\* ------------------------------------------- completion of fs.writeFile
WriteDone_Keep(i) ==
  /\ i \in pending
  /\ pending' = pending \ {i}
  /\ logs' = logs \o Callback(writes[i].callback, NoError)
  /\ Ran("writeDone", "", writes[i].callback, FALSE)
  /\ UNCHANGED <<env, effects, peer, constructed, status, interval, destFile, startTime, clock,
                 writes, fileData>>

WriteDone_IssueOrder(i) ==
  /\ i \in pending
  /\ pending' = pending \ {i}
  /\ fileData' = IF \A j \in 1..Len(writes) : j > i => j \in pending
                 THEN writes[i].data
                 ELSE fileData
  /\ logs' = logs \o Callback(writes[i].callback, NoError)
  /\ Ran("writeDone", "", writes[i].callback, FALSE)
  /\ UNCHANGED <<env, effects, peer, constructed, status, interval, destFile, startTime, clock,
                 writes>>

\* The write succeeded: the file holds its data and callback() runs.
WriteDone(i) ==
  /\ i \in pending
  /\ pending' = pending \ {i}
  /\ fileData' = writes[i].data
  /\ logs' = logs \o Callback(writes[i].callback, NoError)
  /\ Ran("writeDone", "", writes[i].callback, FALSE)
  /\ UNCHANGED <<env, effects, peer, constructed, status, interval, destFile, startTime, clock,
                 writes>>

WriteFailed_Retry(i, message) ==
  /\ i \in pending
  /\ writes' = Append(writes, writes[i])
  /\ pending' = (pending \ {i}) \cup {Len(writes) + 1}
  /\ logs' = logs \o Callback(writes[i].callback, message)
  /\ Ran("writeFailed", message, writes[i].callback, FALSE)
  /\ UNCHANGED <<env, effects, peer, constructed, status, interval, destFile, startTime, clock,
                 fileData>>

\* The write failed: callback(error) runs.
WriteFailed(i, message) ==
  /\ i \in pending
  /\ pending' = pending \ {i}
  /\ logs' = logs \o Callback(writes[i].callback, message)
  /\ Ran("writeFailed", message, writes[i].callback, FALSE)
  /\ UNCHANGED <<env, effects, peer, constructed, status, interval, destFile, startTime, clock,
                 writes, fileData>>

Next ==
  \/ \E u \in UUIDs, now \in ClockReads :
        Constructor(env.fleetId, env.outDir, env.checkInterval, u, now)
  \/ \E now \in ClockReads : HealthCheck(now)
  \/ \E code \in StatusInputs : SetStatus(code)
  \/ \E now \in ClockReads : Stop(now)
  \/ \E i \in pending : WriteDone(i)
  \/ \E i \in pending, m \in ErrorMessages : WriteFailed(i, m)

Spec == Init /\ [][Next]_vars

\* ----------------------------------------------------------- two reporters
\* `new HealthReporter()` for a second reporter of the same process: it reads
\* the same environment and draws its own uuid.
ConstructPeer(fleetId, outDir, envInterval, uuid, now) ==
  /\ constructed
  /\ ~peer.constructed
  /\ Ran("constructPeer", "", "", FALSE)
  /\ UNCHANGED <<env, constructed, status, interval, destFile, startTime,
                 effects, writes, pending, fileData>>
  /\ IF FleetAbsent(fleetId)
     THEN /\ logs' = Append(logs,
                Log("info", <<"new relic control not present, skipping health reporting">>))
          /\ peer' = [NoPeer EXCEPT !.constructed = TRUE]
          /\ UNCHANGED clock
     ELSE IF OutDirAbsent(outDir)
     THEN /\ logs' = Append(logs,
                Log("error", <<"health check output directory not provided, skipping health reporting">>))
          /\ peer' = [NoPeer EXCEPT !.constructed = TRUE]
          /\ UNCHANGED clock
     ELSE LET checkInterval == IF envInterval = Undefined
                               THEN DefaultInterval
                               ELSE Times(ParseInt(envInterval), 1000)
              defaulted == IF envInterval = Undefined
                           THEN <<Log("debug", <<"health check interval not available, using default 5 seconds">>)>>
                           ELSE <<>>
              file == PathJoin(outDir, uuid)
          IN /\ clock' = now
             /\ peer' = [constructed |-> TRUE,
                         interval |-> [set |-> TRUE, delay |-> checkInterval,
                                       active |-> TRUE, unref |-> TRUE],
                         destFile |-> file,
                         startTime |-> now]
             /\ logs' = logs \o defaulted \o
                  << Log("info", <<"new relic control is present, writing health on interval ",
                                   checkInterval, " milliseconds to ", file>>),
                     Log("info", <<"health reporter initialized">>) >>

\* One firing of the second reporter's timer; its status is the initial one.
PeerHealthCheck(now) ==
  /\ peer.constructed
  /\ peer.interval.active
  /\ writes' = Append(writes,
        WriteStatus(peer.destFile, TRUE, STATUS_HEALTHY,
                    VALID_CODES[STATUS_HEALTHY], peer.startTime,
                    "peerHealthCheck", now))
  /\ pending' = pending \cup {Len(writes) + 1}
  /\ clock' = now
  /\ Ran("peerHealthCheck", "", "", FALSE)
  /\ UNCHANGED <<env, constructed, status, interval, destFile, startTime,
                 effects, peer, logs, fileData>>

\* Two reporters of one process, each constructed and ticking.
NextTwo ==
  \/ \E u \in UUIDs, now \in ClockReads :
        Constructor(env.fleetId, env.outDir, env.checkInterval, u, now)
  \/ \E u \in PeerUUIDs, now \in ClockReads :
        ConstructPeer(env.fleetId, env.outDir, env.checkInterval, u, now)
  \/ \E now \in ClockReads : HealthCheck(now)
  \/ \E now \in ClockReads : PeerHealthCheck(now)

SpecTwo == Init /\ [][NextTwo]_vars

\* ---------------------------------------------------------------- liveness
\* Callers (setStatus, stop) act only in the first part of a run, which leaves
\* the timer and the write completions room to act after the last call.
LiveCallerOps == (MaxOps + 1) \div 2

NextLive ==
  \/ \E u \in UUIDs, now \in ClockReads :
        Constructor(env.fleetId, env.outDir, env.checkInterval, u, now)
  \/ \E now \in ClockReads : HealthCheck(now)
  \/ ops < LiveCallerOps /\ \E code \in StatusInputs : SetStatus(code)
  \/ ops < LiveCallerOps /\ \E now \in ClockReads : Stop(now)
  \/ \E i \in pending : WriteDone(i)
  \/ \E i \in pending, m \in ErrorMessages : WriteFailed(i, m)

\* An interval timer that is not cleared keeps firing.
SpecLive ==
  /\ Init
  /\ [][NextLive]_vars
  /\ WF_vars(\E now \in ClockReads : HealthCheck(now))

\* ------------------------------------------------------------------ claims
\* The record an fs.writeFile call carries, line by line.
Healthy(w) == w.data[1][2]
StatusLine(w) == w.data[2][2]
LastError(w) == w.data[3][2]
StartTimeOf(w) == w.data[4][2]
StatusTimeOf(w) == w.data[5][2]
LineKeys(w) == [k \in 1..Len(w.data) |-> w.data[k][1]]

\* The step just taken issued exactly one more fs.writeFile call.
IssuedOne == Len(writes') = Len(writes) + 1 /\ SubSeq(writes', 1, Len(writes)) = writes
Issued == writes'[Len(writes')]

TableKeys ==
  {"NR-APM-000", "NR-APM-001", "NR-APM-002", "NR-APM-003", "NR-APM-004",
   "NR-APM-005", "NR-APM-006", "NR-APM-007", "NR-APM-008", "NR-APM-009",
   "NR-APM-010", "NR-APM-099"}
FailureKeys == TableKeys \ {"NR-APM-000", "NR-APM-099"}

\* C1: in every reachable state currentStatus is one of the 12 keys of the
\* status-code table, and until a setStatus call has run it is NR-APM-000.
C1_StatusInTable ==
  /\ status \in TableKeys
  /\ DOMAIN VALID_CODES = TableKeys
  /\ Cardinality(TableKeys) = 12
  /\ lastOp.op \in {"none", "constructor"} => status = "NR-APM-000"

\* C1 witness: an unrecognised code was passed to setStatus while the
\* register held a failure code, after a tick, a completed write and stop.
C1_Witness ==
  /\ lastOp.op = "setStatus"
  /\ lastOp.arg \notin TableKeys
  /\ status \in FailureKeys
  /\ Len(writes) = 2
  /\ fileData # <<>>
  /\ ~interval.active

\* C2: setStatus with a code outside the table leaves currentStatus as it
\* was, makes exactly one logger call, warn 'invalid health reporter status
\* provided: <code>', and returns normally.
C2_InvalidCodeRejected ==
  [][(lastOp'.op = "setStatus" /\ lastOp'.arg \notin TableKeys)
       => /\ status' = status
          /\ logs' = Append(logs,
               [level |-> "warn",
                msg |-> <<"invalid health reporter status provided: ", lastOp'.arg>>])
          /\ lastOp'.threw = FALSE]_vars

\* C2 witness: the rejected call ran on a register holding a failure code.
C2_Witness ==
  /\ lastOp.op = "setStatus"
  /\ lastOp.arg = "bad-code"
  /\ lastOp.prev \in FailureKeys
  /\ logs[Len(logs)].level = "warn"

\* C3: setStatus with a valid code other than the shutdown code stores that
\* code whatever the register held, and makes no logger call.
C3_ValidCodeStored ==
  [][(lastOp'.op = "setStatus" /\ lastOp'.arg \in TableKeys \ {"NR-APM-099"})
       => /\ status' = lastOp'.arg
          /\ logs' = logs]_vars

\* C3 witness: a failure code replaced the shutdown code.
C3_Witness ==
  /\ lastOp.op = "setStatus"
  /\ lastOp.prev = "NR-APM-099"
  /\ lastOp.arg \in FailureKeys
  /\ status = lastOp.arg

\* C3 second case: a failure code (or healthy) replaced a failure code.
C3_WitnessFromFailure ==
  /\ lastOp.op = "setStatus"
  /\ lastOp.prev \in FailureKeys
  /\ lastOp.arg = "NR-APM-000"
  /\ status = "NR-APM-000"

\* C4: setStatus(NR-APM-099) stores the shutdown code when the register is
\* healthy; when the register holds any other code it changes nothing and
\* makes exactly one logger call, info 'not setting shutdown health status
\* due to current status code: <current code>'.
C4_ShutdownOnlyFromHealthy ==
  [][(lastOp'.op = "setStatus" /\ lastOp'.arg = "NR-APM-099")
       => IF status = "NR-APM-000"
          THEN status' = "NR-APM-099"
          ELSE /\ status' = status
               /\ logs' = Append(logs,
                    [level |-> "info",
                     msg |-> <<"not setting shutdown health status due to current status code: ",
                               status>>])]_vars

\* C4 witness: the shutdown code was refused over a failure code.
C4_Witness ==
  /\ lastOp.op = "setStatus"
  /\ lastOp.arg = "NR-APM-099"
  /\ lastOp.prev \in FailureKeys
  /\ status = lastOp.prev
  /\ logs[Len(logs)].level = "info"

\* C4 second case: the shutdown code was accepted over healthy.
C4_WitnessFromHealthy ==
  /\ lastOp.op = "setStatus"
  /\ lastOp.arg = "NR-APM-099"
  /\ lastOp.prev = "NR-APM-000"
  /\ status = "NR-APM-099"

\* C5: while the register holds a failure code, a step of setStatus(shutdown),
\* stop, a tick or a write completion leaves it there, and a record issued by
\* that step carries the failure code as last_error.
C5_ShutdownKeepsFailureCause ==
  [][(/\ status \in FailureKeys
      /\ \/ lastOp'.op \in {"stop", "healthCheck", "writeDone", "writeFailed"}
         \/ lastOp'.op = "setStatus" /\ lastOp'.arg = "NR-APM-099")
       => /\ status' = status
          /\ Len(writes') > Len(writes) => LastError(Issued) = status]_vars

\* C5 witness: stop ran on a failure code after setStatus(shutdown) was
\* refused, and issued its record.
C5_Witness ==
  /\ lastOp.op = "stop"
  /\ status \in FailureKeys
  /\ Len(writes) > 0
  /\ writes[Len(writes)].callback = "stop"
  /\ LastError(writes[Len(writes)]) = status
  /\ \E k \in 1..Len(logs) : logs[k].level = "info" /\ Len(logs[k].msg) = 2
                              /\ logs[k].msg[2] = status

\* C6: a tick issues one write to destinationPath whose content is the five
\* lines healthy, status, last_error, start_time_unix_nano,
\* status_time_unix_nano in that order, built from the register at the tick.
C6_TickRecord ==
  [][lastOp'.op = "healthCheck"
       => /\ IssuedOne
          /\ Issued.file = destFile
          /\ Len(Issued.data) = 5
          /\ LineKeys(Issued) = <<"healthy: ", "status: '", "last_error: ",
                                  "start_time_unix_nano: ", "status_time_unix_nano: ">>
          /\ LastError(Issued) = status
          /\ StatusLine(Issued) = VALID_CODES[status]
          /\ Healthy(Issued) = (status = "NR-APM-000")
          /\ StartTimeOf(Issued) = startTime]_vars

\* C6 witness: a tick ran while the register held a failure code.
C6_Witness ==
  /\ lastOp.op = "healthCheck"
  /\ status \in FailureKeys
  /\ Len(writes) > 0
  /\ writes[Len(writes)].callback = "healthCheck"
  /\ LastError(writes[Len(writes)]) = status

\* C7: stop on an active reporter whose register is healthy cancels the timer
\* and issues a record with healthy: true, status 'Agent has shutdown.' and
\* last_error NR-APM-099.
C7_StopFromHealthy ==
  [][(lastOp'.op = "stop" /\ interval.set /\ status = "NR-APM-000")
       => /\ interval'.active = FALSE
          /\ IssuedOne
          /\ Healthy(Issued) = TRUE
          /\ StatusLine(Issued) = "Agent has shutdown."
          /\ LastError(Issued) = "NR-APM-099"]_vars

\* C7 witness: stop ran from the healthy state while the timer was running.
C7_Witness ==
  /\ lastOp.op = "stop"
  /\ status = "NR-APM-000"
  /\ interval.set /\ ~interval.active
  /\ Len(writes) > 0
  /\ writes[Len(writes)].callback = "stop"
  /\ Healthy(writes[Len(writes)]) = TRUE

\* C8: stop on an active reporter whose register is not healthy issues a
\* record with healthy: false, last_error the register's code, status its
\* table message, start_time_unix_nano as in the first write of the instance
\* and status_time_unix_nano read from the clock during the call.
C8_StopFromUnhealthy ==
  [][(lastOp'.op = "stop" /\ interval.set /\ status # "NR-APM-000")
       => /\ IssuedOne
          /\ Healthy(Issued) = FALSE
          /\ LastError(Issued) = status
          /\ StatusLine(Issued) = VALID_CODES[status]
          /\ StartTimeOf(Issued) = StartTimeOf(writes'[1])
          /\ StartTimeOf(Issued) = startTime
          /\ StatusTimeOf(Issued) = clock'
          /\ StatusTimeOf(Issued) >= clock]_vars

\* C8 witness: stop ran on a failure code after a tick had written, at a
\* later clock reading than the start time.
C8_Witness ==
  /\ lastOp.op = "stop"
  /\ status \in FailureKeys
  /\ Len(writes) = 2
  /\ writes[1].callback = "healthCheck"
  /\ writes[2].callback = "stop"
  /\ Healthy(writes[2]) = FALSE
  /\ StatusTimeOf(writes[2]) > StartTimeOf(writes[2])
  /\ StatusTimeOf(writes[2]) > StatusTimeOf(writes[1])

\* C9: when a tick's write completes with an error, exactly one logger call
\* is made, error 'error when writing out health status: <message>', the
\* register is unchanged and nothing is thrown.
C9_TickWriteFailure ==
  [][(lastOp'.op = "writeFailed" /\ lastOp'.cb = "healthCheck")
       => /\ logs' = Append(logs,
               [level |-> "error",
                msg |-> <<"error when writing out health status: ", lastOp'.arg>>])
          /\ status' = status
          /\ lastOp'.threw = FALSE]_vars

\* C9 witness: a tick's write failed while the register held a failure code.
C9_Witness ==
  /\ lastOp.op = "writeFailed"
  /\ lastOp.cb = "healthCheck"
  /\ lastOp.arg = "boom"
  /\ status \in FailureKeys
  /\ logs[Len(logs)].level = "error"

\* C10: when the write issued by stop completes with an error, exactly one
\* logger call is made, error 'error when writing out health status during
\* shutdown: <message>', no write is issued again and nothing is thrown.
C10_StopWriteFailure ==
  [][(lastOp'.op = "writeFailed" /\ lastOp'.cb = "stop")
       => /\ logs' = Append(logs,
               [level |-> "error",
                msg |-> <<"error when writing out health status during shutdown: ",
                          lastOp'.arg>>])
          /\ logs'[Len(logs')].msg[1] # "error when writing out health status: "
          /\ writes' = writes
          /\ pending' \subseteq pending /\ pending' # pending
          /\ lastOp'.threw = FALSE]_vars

\* C10 witness: the write of stop failed.
C10_Witness ==
  /\ lastOp.op = "writeFailed"
  /\ lastOp.cb = "stop"
  /\ lastOp.arg = "boom"
  /\ ~interval.active
  /\ logs[Len(logs)].level = "error"
  /\ logs[Len(logs)].msg[1] = "error when writing out health status during shutdown: "

\* The reporter read a fleet identifier and an output directory.
EnvActive == env.fleetId = "42" /\ env.outDir = "/tmp"
DebugLogs == {k \in 1..Len(logs) : logs[k].level = "debug"}

\* C11: no public operation throws: the constructor, setStatus and stop
\* return normally in every reachable state.
C11_NoOperationThrows == lastOp.threw = FALSE

\* C12: with the fleet identifier absent the constructor makes exactly one
\* logger call, info 'new relic control not present, skipping health
\* reporting', schedules no timer, and returns the reporter.
C12_FleetIdAbsent ==
  (constructed /\ env.fleetId = "<undefined>")
    => /\ interval.set = FALSE
       /\ lastOp.op = "constructor"
            => /\ logs = << [level |-> "info",
                             msg |-> <<"new relic control not present, skipping health reporting">>] >>
               /\ lastOp.threw = FALSE

\* C12 witness: the constructor ran with no fleet identifier although an
\* output directory was given.
C12_Witness ==
  /\ lastOp.op = "constructor"
  /\ constructed
  /\ env.fleetId = "<undefined>"
  /\ env.outDir = "/tmp"
  /\ Len(logs) = 1

\* C13: with the fleet identifier present and the output directory absent
\* the constructor makes exactly one logger call, error 'health check output
\* directory not provided, skipping health reporting', so no info call,
\* schedules no timer, and returns the reporter.
C13_OutDirAbsent ==
  (constructed /\ env.fleetId = "42" /\ env.outDir = "<undefined>")
    => /\ interval.set = FALSE
       /\ lastOp.op = "constructor"
            => /\ logs = << [level |-> "error",
                             msg |-> <<"health check output directory not provided, skipping health reporting">>] >>
               /\ lastOp.threw = FALSE

\* C13 witness: the constructor ran with a fleet identifier and no output
\* directory.
C13_Witness ==
  /\ lastOp.op = "constructor"
  /\ constructed
  /\ env.fleetId = "42"
  /\ env.outDir = "<undefined>"
  /\ logs[1].level = "error"

\* C14: on a reporter whose construction stopped early, stop attempts no
\* file write, cancels nothing and returns without throwing.
C14_StopOnInertIsNoop ==
  (lastOp.op = "stop" /\ interval.set = FALSE)
    => /\ Len(writes) = 0
       /\ pending = {}
       /\ lastOp.threw = FALSE

\* C15: with fleet identifier and output directory present and the interval
\* absent the constructor makes exactly one debug logger call, goes on, and
\* schedules the timer with a delay of 5000 milliseconds.
C15_DefaultInterval ==
  (constructed /\ EnvActive /\ env.checkInterval = "<undefined>")
    => /\ interval.set
       /\ interval.delay = 5000
       /\ Cardinality(DebugLogs) = 1
       /\ logs[1] = [level |-> "debug",
                     msg |-> <<"health check interval not available, using default 5 seconds">>]
       /\ lastOp.op = "constructor" => interval.active /\ Len(logs) = 3

\* C15 witness: the constructor ran with no interval in the environment.
C15_Witness ==
  /\ lastOp.op = "constructor"
  /\ EnvActive
  /\ env.checkInterval = "<undefined>"
  /\ interval.active
  /\ interval.delay = 5000

\* C16: with the interval present as a string of n whole seconds the timer
\* is scheduled with a delay of n * 1000 milliseconds and no debug logger
\* call is made.
C16_IntervalInMilliseconds ==
  (constructed /\ EnvActive /\ env.checkInterval # "<undefined>")
    => /\ interval.set
       /\ env.checkInterval = "1" => interval.delay = 1000
       /\ env.checkInterval = "30" => interval.delay = 30000
       /\ DebugLogs = {}
       /\ lastOp.op = "constructor" => interval.active

\* C16 witness: the constructor ran with an interval of "30" seconds.
C16_Witness ==
  /\ lastOp.op = "constructor"
  /\ EnvActive
  /\ env.checkInterval = "30"
  /\ interval.active
  /\ interval.delay = 30000

\* C17: every record written, by a tick or by stop, carries the start time
\* captured by the constructor, which no later operation has changed.
C17_StartTimeFixed ==
  /\ \A i \in 1..Len(writes) : StartTimeOf(writes[i]) = startTime
  /\ \A i, j \in 1..Len(writes) : StartTimeOf(writes[i]) = StartTimeOf(writes[j])
  /\ interval.set => startTime >= 0

\* C17 witness: a tick and stop have both written, the second at a later
\* clock reading than the start time.
C17_Witness ==
  /\ Len(writes) >= 2
  /\ \E i, j \in 1..Len(writes) :
       /\ writes[i].callback = "healthCheck"
       /\ writes[j].callback = "stop"
       /\ StatusTimeOf(writes[j]) > startTime

\* C18: status_time_unix_nano never decreases from one issued write to the
\* next, and no record has a status time before its start time.
C18_StatusTimeMonotonic ==
  /\ \A i, j \in 1..Len(writes) :
       i < j => StatusTimeOf(writes[i]) <= StatusTimeOf(writes[j])
  /\ \A i \in 1..Len(writes) : StatusTimeOf(writes[i]) >= StartTimeOf(writes[i])

\* C18 witness: two writes were issued at different clock readings.
C18_Witness ==
  /\ Len(writes) >= 2
  /\ StatusTimeOf(writes[1]) < StatusTimeOf(writes[Len(writes)])
  /\ StartTimeOf(writes[1]) < StatusTimeOf(writes[Len(writes)])

\* C19: every write, by a tick or by stop, targets the path the constructor
\* computed, which no later operation has changed.
C19_DestinationFixed ==
  /\ \A i \in 1..Len(writes) : writes[i].file = destFile
  /\ interval.set
       => \E u \in UUIDs : destFile = <<"/tmp", "/", "health-", u, ".yaml">>
  /\ ~interval.set => destFile = "<undefined>"

\* C19 witness: a tick and stop have both written to the destination.
C19_Witness ==
  /\ Len(writes) >= 2
  /\ writes[1].callback = "healthCheck"
  /\ writes[Len(writes)].callback = "stop"
  /\ writes[1].file = writes[Len(writes)].file
  /\ pending = {}

\* C20: once stop has run the tick handler runs no more: no tick write is
\* issued after a write of stop, and a tick runs only while the timer is
\* active.
C20_NoTickAfterStop ==
  /\ \A i, j \in 1..Len(writes) :
       (i < j /\ writes[i].callback = "stop") => writes[j].callback = "stop"
  /\ lastOp.op = "healthCheck" => interval.active
  /\ (interval.set /\ \E i \in 1..Len(writes) : writes[i].callback = "stop")
       => ~interval.active

\* C20 witness: stop ran after a tick, and other operations ran after it.
C20_Witness ==
  /\ Len(writes) = 2
  /\ writes[1].callback = "healthCheck"
  /\ writes[2].callback = "stop"
  /\ ~interval.active
  /\ lastOp.op = "setStatus"
  /\ pending = {}

\* C21 as stated: once stop has run and every write has completed without a
\* reported failure, the file holds the record written by stop.
C21_StopRecordIsFinal ==
  ( /\ \E i \in 1..Len(writes) : writes[i].callback = "stop"
    /\ pending = {}
    /\ \A k \in 1..Len(logs) : logs[k].level # "error" )
  => \E i \in 1..Len(writes) :
        writes[i].callback = "stop" /\ fileData = writes[i].data

\* C21 amended: the file holds the record of the write that completed last;
\* it is the record of stop when the write of stop completed last, and the
\* record of a tick when a tick write outlived the write of stop.
C21_LastCompletedIsFinal ==
  (pending = {} /\ lastOp.op = "writeDone")
  => \E i \in 1..Len(writes) :
        writes[i].callback = lastOp.cb /\ fileData = writes[i].data

\* C21 witness: stop ran while a tick write was in flight, the write of stop
\* completed first and the tick write last, and the file holds the tick record.
C21_Witness ==
  /\ Len(writes) = 2
  /\ writes[1].callback = "healthCheck"
  /\ writes[2].callback = "stop"
  /\ writes[1].data # writes[2].data
  /\ pending = {}
  /\ lastOp.op = "writeDone"
  /\ lastOp.cb = "healthCheck"
  /\ fileData = writes[1].data
  /\ \A k \in 1..Len(logs) : logs[k].level # "error"

C23_ShutdownMarkIdempotent ==
  [][ ( /\ lastOp'.op = "setStatus"
        /\ ops' # ops
        /\ lastOp'.arg = STATUS_AGENT_SHUTDOWN )
      => /\ status = STATUS_AGENT_SHUTDOWN => status' = STATUS_AGENT_SHUTDOWN
         /\ status = STATUS_HEALTHY => status' = STATUS_AGENT_SHUTDOWN
         /\ status # STATUS_HEALTHY => status' = status
         /\ status' # STATUS_HEALTHY
         /\ UNCHANGED <<interval, destFile, startTime, writes, pending,
                        fileData>> ]_vars

\* C23 witness: the shutdown code was set on a reporter already marked as shut
\* down.
C23_Witness ==
  /\ lastOp.op = "setStatus"
  /\ lastOp.arg = STATUS_AGENT_SHUTDOWN
  /\ lastOp.prev = STATUS_AGENT_SHUTDOWN
  /\ status = STATUS_AGENT_SHUTDOWN

\* C24: no write of stop reports an unhealthy agent whose last error is the
\* shutdown code.
C24_StopNeverUnhealthyShutdown ==
  \A i \in 1..Len(writes) :
    writes[i].callback = "stop"
      => ~(Healthy(writes[i]) = FALSE /\ LastError(writes[i]) = STATUS_AGENT_SHUTDOWN)

\* C25: setStatus changes at most the status: it issues no write, and leaves
\* the timer, the start time, the destination and the file as they were.
C25_SetStatusFrame ==
  [][ (lastOp'.op = "setStatus" /\ ops' # ops)
      => UNCHANGED <<writes, pending, interval, startTime, destFile,
                     fileData, clock, constructed, env>> ]_vars

\* C25 witness: setStatus stored a failure code on a reporter with an active
\* timer and a write in flight.
C25_Witness ==
  /\ lastOp.op = "setStatus"
  /\ lastOp.arg \in FailureKeys
  /\ status = lastOp.arg
  /\ interval.active
  /\ pending # {}

\* setStatus(c) has just been accepted: c is in the table and was not refused.
Accepted(c) ==
  /\ lastOp.op = "setStatus"
  /\ lastOp.arg = c
  /\ Has(c)
  /\ ~ShutdownRefused(c, lastOp.prev)

\* The operation that ran last was a tick that issued a record with code c.
TickIssued(c) ==
  /\ lastOp.op = "healthCheck"
  /\ Len(writes) > 0
  /\ writes[Len(writes)].callback = "healthCheck"
  /\ LastError(writes[Len(writes)]) = c

\* The operation that ran last was a stop that issued a record with code c.
StopIssued(c) ==
  /\ lastOp.op = "stop"
  /\ ~lastOp.threw
  /\ Len(writes) > 0
  /\ writes[Len(writes)].callback = "stop"
  /\ LastError(writes[Len(writes)]) = c

\* C26 as stated: on an active reporter, after setStatus(c) is accepted, unless
\* the status changes again, a record with last_error = c is eventually issued
\* by a tick, or by stop when c is not the healthy code.
C26_AcceptedEventuallyIssued ==
  \A c \in StatusInputs \cap TableKeys :
    [](( Accepted(c) /\ interval.active )
        => <>( \/ status # c
               \/ TickIssued(c)
               \/ (c # STATUS_HEALTHY /\ StopIssued(c)) ))

\* C26 amended: as above, except that when c is the healthy code and stop runs
\* before the next tick, the timer is cancelled and no record with
\* last_error = c is issued: the record of stop carries the shutdown code.
C26_AcceptedIssuedUnlessStopped ==
  \A c \in StatusInputs \cap TableKeys :
    [](( Accepted(c) /\ interval.active )
        => <>( \/ status # c
               \/ TickIssued(c)
               \/ (c # STATUS_HEALTHY /\ StopIssued(c))
               \/ ( /\ c = STATUS_HEALTHY
                    /\ ~interval.active
                    /\ \E i \in 1..Len(writes) :
                         /\ writes[i].callback = "stop"
                         /\ LastError(writes[i]) = STATUS_AGENT_SHUTDOWN ) ))

\* C26 witness: a failure code was accepted on an active reporter and the tick
\* that ran next issued a record that carries it.
C26_Witness ==
  /\ lastOp.op = "healthCheck"
  /\ interval.active
  /\ status \in FailureKeys
  /\ lastOp.prev = status
  /\ TickIssued(status)

C28_LastCompletedWins ==
  [][ /\ (lastOp'.op = "healthCheck" /\ ops' # ops)
           => /\ Len(writes') = Len(writes) + 1
              /\ pending' = pending \cup {Len(writes')}
      /\ (lastOp'.op = "writeDone" /\ ops' # ops)
           => \E i \in pending :
                /\ pending' = pending \ {i}
                /\ fileData' = writes[i].data
                /\ lastOp'.cb = writes[i].callback
      /\ (ops' # ops /\ lastOp'.op # "writeDone") => fileData' = fileData ]_vars

\* C28 witness: two tick writes with different records overlapped, the second
\* completed first, and the file holds the record of the first.
C28_Witness ==
  /\ Len(writes) = 2
  /\ writes[1].callback = "healthCheck"
  /\ writes[2].callback = "healthCheck"
  /\ writes[1].data # writes[2].data
  /\ pending = {}
  /\ lastOp.op = "writeDone"
  /\ fileData = writes[1].data
  /\ \A k \in 1..Len(logs) : logs[k].level # "error"

\* C29: stop cancels no write in flight: every write in flight before a stop
\* is in flight after it, and a tick write that fails after stop logs the tick
\* error message, not the shutdown one.
C29_StopKeepsInFlight ==
  [][ /\ (lastOp'.op = "stop" /\ ops' # ops) => pending \subseteq pending'
      /\ ( /\ lastOp'.op = "writeFailed"
           /\ ops' # ops
           /\ lastOp'.cb = "healthCheck"
           /\ ~interval.active )
           => logs' = Append(logs,
                 Log("error", <<"error when writing out health status: ",
                                lastOp'.arg>>)) ]_vars

\* C29 witness: a tick write issued before stop failed after stop; the last
\* log is the tick error message.
C29_Witness ==
  /\ lastOp.op = "writeFailed"
  /\ lastOp.cb = "healthCheck"
  /\ ~interval.active
  /\ \E i \in 1..Len(writes) : writes[i].callback = "stop"
  /\ Len(logs) > 0
  /\ logs[Len(logs)] =
       Log("error", <<"error when writing out health status: ", lastOp.arg>>)

\* C30: the constructor checks its preconditions in order and stops at the
\* first that fails: with both the fleet id and the output directory absent it
\* emits the fleet id info log and nothing else, and sets no timer.
C30_FleetCheckedFirst ==
  ( /\ constructed
    /\ env.fleetId = Undefined
    /\ env.outDir = Undefined
    /\ lastOp.op = "constructor" )
  => /\ logs = << Log("info",
                   <<"new relic control not present, skipping health reporting">>) >>
     /\ ~interval.set
     /\ destFile = Undefined

\* C30 witness: a reporter was constructed with neither variable set.
C30_Witness ==
  /\ constructed
  /\ lastOp.op = "constructor"
  /\ env.fleetId = Undefined
  /\ env.outDir = Undefined
  /\ Len(logs) = 1

\* The logs made at a level, in order.
LogsAt(level) == SelectSeq(logs, LAMBDA l : l.level = level)

\* C31: a construction that passes its checks captures the start time,
\* computes the destination, logs the interval and destination at info,
\* schedules the timer once, unreferences it once, and logs 'health reporter
\* initialized' at info, in this order; it makes these two info logs and no
\* error log.
C31_ConstructionOrder ==
  (constructed /\ EnvActive)
  => /\ effects = << "#startTime", "#destFile", "logger.info", "setInterval",
                     "unref", "logger.info" >>
     /\ Cardinality({k \in 1..Len(effects) : effects[k] = "setInterval"}) = 1
     /\ Cardinality({k \in 1..Len(effects) : effects[k] = "unref"}) = 1
     /\ interval.set /\ interval.unref
     /\ startTime # UndefinedTime
     /\ destFile # Undefined
     /\ lastOp.op = "constructor"
          => /\ LogsAt("info") =
                  << Log("info", <<"new relic control is present, writing health on interval ",
                                   interval.delay, " milliseconds to ", destFile>>),
                     Log("info", <<"health reporter initialized">>) >>
             /\ LogsAt("error") = <<>>
             /\ logs[Len(logs)] = Log("info", <<"health reporter initialized">>)
             /\ interval.active

\* C31 witness: a construction with all three variables set has completed.
C31_Witness ==
  /\ lastOp.op = "constructor"
  /\ EnvActive
  /\ env.checkInterval = "30"
  /\ Len(effects) = 6
  /\ Len(logs) = 2

\* C32: a timer is scheduled exactly when the fleet id is present (set and
\* not empty) and the output directory is present (set), whatever the
\* interval variable holds; a reporter without a timer never runs a tick and
\* never issues a tick write.
C32_TimerIffBothPresent ==
  /\ constructed
       => ( interval.set
            <=> (env.fleetId \notin {Undefined, ""} /\ env.outDir # Undefined) )
  /\ ~constructed => ~interval.set
  /\ ~interval.set
       => /\ lastOp.op # "healthCheck"
          /\ \A i \in 1..Len(writes) : writes[i].callback # "healthCheck"
          /\ ~interval.active

\* C32 witness: a reporter built with an empty fleet id has no timer and has
\* issued no write after several operations.
C32_Witness ==
  /\ constructed
  /\ ops >= 3
  /\ env.fleetId = ""
  /\ env.outDir = "/tmp"
  /\ ~interval.set
  /\ writes = <<>>

\* C32 witness: a timer is scheduled although the interval is not a number.
C32_WitnessAnyInterval ==
  /\ constructed
  /\ env.checkInterval = "abc"
  /\ interval.set
  /\ interval.delay = NaN
  /\ \E i \in 1..Len(writes) : writes[i].callback = "healthCheck"

\* C33: a tick, and the completion of a write whether it succeeds or fails,
\* leave the status, the start time, the destination and the timer as they
\* were; the tick only reads the status, which its record carries.
C33_TickFrame ==
  [][ /\ (ops' # ops /\ lastOp'.op \in {"healthCheck", "writeDone", "writeFailed"})
           => UNCHANGED <<status, startTime, destFile, interval>>
      /\ (ops' # ops /\ lastOp'.op = "healthCheck")
           => LastError(writes'[Len(writes')]) = status ]_vars

\* C33 witness: a tick write of a reporter with a failure status has failed;
\* the status is in place and the timer still active.
C33_Witness ==
  /\ lastOp.op = "writeFailed"
  /\ lastOp.cb = "healthCheck"
  /\ status \in FailureKeys
  /\ interval.active
  /\ \E i \in 1..Len(writes) : LastError(writes[i]) = status

\* C34: stop does not change the status: the shutdown code goes into the
\* record only, so after stop from the healthy state the status is still the
\* healthy code, and a stop that follows a stop issues a record equal to the
\* one before it on every line but status_time_unix_nano.
C34_StopKeepsStatus ==
  [][ (ops' # ops /\ lastOp'.op = "stop")
      => /\ status' = status
         /\ (status = STATUS_HEALTHY /\ ~lastOp'.threw)
              => /\ status' = STATUS_HEALTHY
                 /\ LastError(writes'[Len(writes')]) = STATUS_AGENT_SHUTDOWN
         /\ (lastOp.op = "stop" /\ ~lastOp.threw)
              => /\ ~lastOp'.threw
                 /\ Len(writes') = Len(writes) + 1
                 /\ writes'[Len(writes')].file = writes[Len(writes)].file
                 /\ writes'[Len(writes')].callback = writes[Len(writes)].callback
                 /\ \A l \in 1..4 :
                      writes'[Len(writes')].data[l] = writes[Len(writes)].data[l] ]_vars

\* C34 witness: stop ran twice from the healthy state; the status is still the
\* healthy code and both records carry the shutdown code.
C34_Witness ==
  /\ lastOp.op = "stop"
  /\ status = STATUS_HEALTHY
  /\ Len(writes) = 2
  /\ writes[1].callback = "stop"
  /\ writes[2].callback = "stop"
  /\ LastError(writes[1]) = STATUS_AGENT_SHUTDOWN
  /\ LastError(writes[2]) = STATUS_AGENT_SHUTDOWN
  /\ StatusTimeOf(writes[1]) # StatusTimeOf(writes[2])

\* C35: in every record issued, by a tick or by stop, healthy: true appears
\* only when the status was the healthy code when the record was built, and a
\* record whose last_error is a failure code says healthy: false.
C35_HealthyFlagMatchesStatus ==
  /\ \A i \in 1..Len(writes) :
       /\ LastError(writes[i]) \in FailureKeys => Healthy(writes[i]) = FALSE
       /\ (Healthy(writes[i]) = TRUE /\ writes[i].callback = "healthCheck")
            => LastError(writes[i]) = STATUS_HEALTHY
       /\ (Healthy(writes[i]) = TRUE /\ writes[i].callback = "stop")
            => LastError(writes[i]) = STATUS_AGENT_SHUTDOWN
  /\ (lastOp.op \in {"healthCheck", "stop"} /\ ~lastOp.threw)
       => /\ Len(writes) > 0
          /\ Healthy(writes[Len(writes)]) = (lastOp.prev = STATUS_HEALTHY)

\* C35 witness: a tick issued a healthy record, the status then became a
\* failure code, and stop issued a record that says healthy: false.
C35_Witness ==
  /\ lastOp.op = "stop"
  /\ Len(writes) = 2
  /\ writes[1].callback = "healthCheck"
  /\ Healthy(writes[1]) = TRUE
  /\ writes[2].callback = "stop"
  /\ Healthy(writes[2]) = FALSE
  /\ LastError(writes[2]) \in FailureKeys

\* C36: in every record issued, by a tick or by stop, the status line is the
\* table message of the code on the last_error line, also when stop puts the
\* shutdown code in the record.
C36_MessageMatchesCode ==
  \A i \in 1..Len(writes) :
    /\ Has(LastError(writes[i]))
    /\ StatusLine(writes[i]) = VALID_CODES[LastError(writes[i])]

\* C36 witness: stop on a healthy reporter issued a record with the shutdown
\* code and the shutdown message, and a tick one with a failure code.
C36_Witness ==
  /\ status = STATUS_HEALTHY
  /\ \E i \in 1..Len(writes) :
       /\ writes[i].callback = "stop"
       /\ LastError(writes[i]) = STATUS_AGENT_SHUTDOWN
       /\ StatusLine(writes[i]) = "Agent has shutdown."
  /\ \E i \in 1..Len(writes) :
       /\ writes[i].callback = "healthCheck"
       /\ LastError(writes[i]) \in FailureKeys

\* The number of logs made at the error level.
ErrorLogs == Len(LogsAt("error"))

\* C37: on a reporter whose construction completed the error logs number the
\* write completions that reported an error: a failed completion adds one
\* error log, a successful one adds no log at all, and no other operation
\* adds an error log.
C37_ErrorLogsCountFailures ==
  [][ (ops' # ops /\ interval'.set)
      => /\ lastOp'.op = "writeFailed" => ErrorLogs' = ErrorLogs + 1
         /\ lastOp'.op = "writeFailed" => Len(logs') = Len(logs) + 1
         /\ lastOp'.op = "writeDone" => logs' = logs
         /\ lastOp'.op # "writeFailed" => ErrorLogs' = ErrorLogs ]_vars

\* C37 witness: of two writes one failed and one succeeded, the successful
\* one last; there is one error log.
C37_Witness ==
  /\ interval.set
  /\ Len(writes) = 2
  /\ pending = {}
  /\ lastOp.op = "writeDone"
  /\ ErrorLogs = 1

\* C38 as stated: two reporters constructed with the same output directory
\* never write to the same file path.
C38_PathsNeverCollide ==
  /\ (destFile # Undefined /\ peer.destFile # Undefined)
       => destFile # peer.destFile
  /\ \A i, j \in 1..Len(writes) :
       (writes[i].callback = "healthCheck" /\ writes[j].callback = "peerHealthCheck")
         => writes[i].file # writes[j].file

\* C38 amended: each reporter writes to health-<its uuid>.yaml in the output
\* directory, so two reporters write to the same path exactly when
\* crypto.randomUUID() gave both the same value; nothing else keeps the paths
\* apart.
C38_PathsCollideOnlyOnEqualUuid ==
  /\ destFile # Undefined
       => \E u \in UUIDs : destFile = <<env.outDir, "/", "health-", u, ".yaml">>
  /\ peer.destFile # Undefined
       => \E u \in PeerUUIDs :
            peer.destFile = <<env.outDir, "/", "health-", u, ".yaml">>
  /\ (destFile # Undefined /\ peer.destFile # Undefined)
       => (destFile = peer.destFile <=> destFile[4] = peer.destFile[4])
  /\ \A i \in 1..Len(writes) :
       /\ writes[i].callback = "healthCheck" => writes[i].file = destFile
       /\ writes[i].callback = "peerHealthCheck" => writes[i].file = peer.destFile

\* C38 witness: two reporters with different uuids have each issued a tick
\* write, to different paths in the same directory.
C38_Witness ==
  /\ destFile # Undefined
  /\ peer.destFile # Undefined
  /\ destFile[4] # peer.destFile[4]
  /\ destFile[1] = peer.destFile[1]
  /\ \E i, j \in 1..Len(writes) :
       /\ writes[i].callback = "healthCheck"
       /\ writes[j].callback = "peerHealthCheck"
       /\ writes[i].file # writes[j].file

====
